---- MODULE Spec2Model ----
(***************************************************************************)
(* State-machine model of the KanbanAI board: the task store (table        *)
(* public.tasks), the board page (KanbanBoard.tsx), the tool-calling chat  *)
(* (AIChat with executeToolCall) and the streaming chat (AIChat.tsx).      *)
(* An optional value (null / undefined) is a sequence of length 0 or 1.    *)
(***************************************************************************)
EXTENDS Integers, Sequences, FiniteSets, TLC

\* ------------------------------------------------------------------ bounds
MaxRows == 4
MaxLoads == 2
MaxTurns == 1
MaxGestures == 3

\* ------------------------------------------------------------------ data
UserId == "u1"
OtherUser == "u2"
Statuses == {"todo", "in_progress", "done"}
Null == "null"
Now == "ts"
Undefined == "undefined"

\* A text is a sequence of tokens: pieces of text, blanks and line ends.
CR == "\r"
Blank == " "
IsSpace(tok) == tok \in {Blank, CR}

\* s.trim()
RECURSIVE TrimLeft(_)
TrimLeft(s) == IF s # <<>> /\ IsSpace(Head(s)) THEN TrimLeft(Tail(s)) ELSE s
RECURSIVE TrimRight(_)
TrimRight(s) ==
  IF s # <<>> /\ IsSpace(s[Len(s)]) THEN TrimRight(SubSeq(s, 1, Len(s) - 1)) ELSE s
Trim(s) == TrimRight(TrimLeft(s))

\* One row of public.tasks, as inserted by the initial data.
Row(id, owner, title, priority, status, position, fin) ==
  [id |-> id, user_id |-> owner, title |-> title, priority |-> priority,
   status |-> status, position |-> position, created_at |-> id,
   finalitzacio_tasca |-> fin]

\* ------------------------------------------------------------------ store
\* CHECK (status = ANY (ARRAY['todo','in_progress','done']))
tasks_status_check_open(r) == TRUE
tasks_status_check(r) == r.status \in Statuses

\* .eq("id", id).eq("user_id", owner)
EqIdAnyOwner(S, id, owner) == {r \in S : r.id = id}
EqIdAndOwner(S, id, owner) == {r \in S : r.id = id /\ r.user_id = owner}

\* .eq("id", id)
EqId(S, id) == {r \in S : r.id = id}

\* A row with the columns named in the patch overwritten.
ApplyPatch(r, patch) ==
  [f \in DOMAIN r |-> IF f \in DOMAIN patch /\ patch[f] # Undefined THEN patch[f] ELSE r[f]]

\* update(patch) on the matched rows M: all or nothing under the constraint.
StoreUpdate(S, M, patch) ==
  LET new == {ApplyPatch(r, patch) : r \in M}
  IN IF \A r \in new : tasks_status_check(r)
     THEN [error |-> FALSE, rows |-> (S \ M) \cup new, count |-> Cardinality(M)]
     ELSE [error |-> TRUE, rows |-> S, count |-> 0]

\* insert(row): rejected by the constraint, else stored under a fresh id.
StoreInsert(S, r) ==
  IF tasks_status_check(r)
  THEN [error |-> FALSE, rows |-> S \cup {r}, count |-> 1]
  ELSE [error |-> TRUE, rows |-> S, count |-> 0]

\* delete() of the matched rows M.
StoreDelete(S, M) == [error |-> FALSE, rows |-> S \ M, count |-> Cardinality(M)]

\* A call the store never answers successfully (connectivity).
StoreFailure(S) == [error |-> TRUE, rows |-> S, count |-> 0]

\* (position, created_at) ascending
RowBefore(a, b) ==
  \/ a.position < b.position
  \/ a.position = b.position /\ a.created_at <= b.created_at

RECURSIVE OrderRows(_)
OrderRows(S) ==
  IF S = {} THEN <<>>
  ELSE LET m == CHOOSE r \in S : \A q \in S : RowBefore(r, q)
       IN <<m>> \o OrderRows(S \ {m})

\* select("*").eq("user_id", owner).order("position").order("created_at")
SelectTasks(S, owner) == OrderRows({r \in S : r.user_id = owner})

\* ------------------------------------------------------------------ state
VARIABLES
  store,        \* rows of public.tasks (all owners)
  nextId,       \* next id the store assigns
  tasks,        \* KanbanBoard: in-memory task list
  draggedTask,  \* KanbanBoard: task being dragged (optional)
  drop,         \* handleDrop suspended at its await (optional)
  loadsSent,    \* loadTasks queries sent, not yet run by the store
  loadsBack,    \* loadTasks answers on their way back
  toast,        \* last notice shown: <<title, description>>
  gestures,     \* board gestures of the user so far
  messages,     \* AIChat (tool calling): message list
  loading,      \* AIChat: a turn is in flight
  pc,           \* sendMessage: "idle", "fetch", "tools" or "persist"
  resp,         \* sendMessage: the gateway's answer to the turn (optional)
  cTasks,       \* the tasks prop captured by the render that ran sendMessage
  results,      \* what executeToolCall returned for the calls run so far
  actionResult, \* sendMessage: actionResult (optional)
  requests,     \* gateway requests sent
  accepted,     \* user messages accepted
  sse,          \* AIChat (streaming): the response body, as tokens
  delivered,    \* tokens handed out by reader.read() so far
  buffer,       \* the decoder's buffer
  assistantContent, \* the content assembled by the decoder (list of deltas)
  sMessages,    \* AIChat (streaming): message list
  sPc,          \* the read loop: "read" or "end"
  doneLen,      \* doneTasks.length
  tasksLen,     \* tasks.length
  completionRate, \* the percentage shown (optional)
  chatLog,      \* rows of public.chat_messages written by the chat (contents)
  invoked,      \* invocations of sendMessage so far
  lastText,     \* sendMessage: text, at its last invocation
  relayReq,     \* kanban-chat: the request being served (optional)
  relayResp,    \* kanban-chat: the Response returned (optional)
  boardContext, \* kanban-chat: boardContext of the request body (optional)
  systemPrompt  \* kanban-chat: the system prompt sent upstream (optional)

boardVars == <<store, nextId, tasks, draggedTask, drop, loadsSent, loadsBack, toast, gestures>>
chatVars == <<messages, loading, pc, resp, cTasks, results, actionResult, requests, accepted,
             chatLog, invoked, lastText>>
streamVars == <<sse, delivered, buffer, assistantContent, sMessages, sPc>>
rateVars == <<doneLen, tasksLen, completionRate>>
relayVars == <<relayReq, relayResp, boardContext, systemPrompt>>
vars == <<boardVars, chatVars, streamVars, rateVars, relayVars>>
others == <<chatVars, streamVars, rateVars, relayVars>>

NoToast == <<"", "">>

\* The table as earlier sessions left it: two tasks of the user, one of another user.
InitialRows ==
  { Row(1, UserId, "B", "medium", "done", 1, Now),
    Row(2, OtherUser, "B", "medium", "todo", 0, Null),
    Row(3, UserId, "C", "low", "todo", 0, Null) }

InitBoard ==
  /\ store = InitialRows
  /\ nextId = 4
  /\ tasks = <<>>
  /\ draggedTask = <<>>
  /\ drop = <<>>
  /\ loadsSent = 1          \* useEffect(() => { loadTasks(); })
  /\ loadsBack = {}
  /\ toast = NoToast
  /\ gestures = 0

\* ------------------------------------------------------------------ board page
CanLoad == loadsSent + Cardinality(loadsBack) < MaxLoads

\* one more gesture of the user on the board
Gesture == gestures < MaxGestures /\ gestures' = gestures + 1

\* todoTasks / inProgressTasks / doneTasks
Partition(ts, status) == SelectSeq(ts, LAMBDA t : t.status = status)

\* the query of loadTasks
LoadQuery(S, owner) == SelectTasks(S, owner)

\* loadTasks, up to the await: the query leaves.
LoadTasks ==
  /\ Gesture
  /\ CanLoad
  /\ loadsSent' = loadsSent + 1
  /\ UNCHANGED <<store, nextId, tasks, draggedTask, drop, loadsBack, toast, others>>

\* The store runs one pending query (or the call fails).
LoadTasksQuery ==
  /\ loadsSent > 0
  /\ loadsSent' = loadsSent - 1
  /\ \E fail \in BOOLEAN :
       loadsBack' = loadsBack \cup
         {IF fail THEN [error |-> TRUE, data |-> <<>>]
                  ELSE [error |-> FALSE, data |-> LoadQuery(store, UserId)]}
  /\ UNCHANGED <<store, nextId, tasks, draggedTask, drop, toast, gestures, others>>

\* loadTasks after the await.
LoadTasksReturn ==
  \E r \in loadsBack :
    /\ loadsBack' = loadsBack \ {r}
    /\ IF r.error
       THEN /\ toast' = <<"Error carregant tasques", "">>
            /\ UNCHANGED tasks
       ELSE /\ tasks' = r.data
            /\ UNCHANGED toast
    /\ UNCHANGED <<store, nextId, draggedTask, drop, loadsSent, gestures, others>>

\* onDragStart={setDraggedTask}
DragStart ==
  \E i \in 1..Len(tasks) :
    /\ Gesture
    /\ draggedTask' = <<tasks[i]>>
    /\ UNCHANGED <<store, nextId, tasks, drop, loadsSent, loadsBack, toast, others>>

\* updateData of handleDrop
DropUpdate(newStatus) ==
  [status |-> newStatus,
   finalitzacio_tasca |-> IF newStatus = "done" THEN Now ELSE Null]

\* the optimistic patch of handleDrop
DropPatchToEnd(prev, id, newStatus) ==
  SelectSeq(prev, LAMBDA t : t.id # id) \o
  [i \in 1..Len(SelectSeq(prev, LAMBDA t : t.id = id)) |->
     [SelectSeq(prev, LAMBDA t : t.id = id)[i] EXCEPT !.status = newStatus]]
DropPatch(prev, id, newStatus) ==
  [i \in 1..Len(prev) |->
     IF prev[i].id = id THEN [prev[i] EXCEPT !.status = newStatus] ELSE prev[i]]

\* !draggedTask || draggedTask.status === newStatus
SameColumnNever(dragged, newStatus) == dragged = <<>>
SameColumn(dragged, newStatus) ==
  IF dragged = <<>> THEN TRUE ELSE dragged[1].status = newStatus

\* handleDrop up to its await
HandleDrop ==
  \E newStatus \in Statuses :
    /\ drop = <<>>
    /\ Gesture
    /\ \/ /\ SameColumn(draggedTask, newStatus)
          /\ draggedTask' = <<>>
          /\ UNCHANGED <<store, drop>>
       \/ /\ ~SameColumn(draggedTask, newStatus)
          /\ \E fail \in BOOLEAN :
               LET res == IF fail THEN StoreFailure(store)
                          ELSE StoreUpdate(store, EqId(store, draggedTask[1].id),
                                           DropUpdate(newStatus))
               IN /\ store' = res.rows
                  /\ drop' = <<[id |-> draggedTask[1].id, newStatus |-> newStatus,
                                error |-> res.error]>>
          /\ UNCHANGED draggedTask
    /\ UNCHANGED <<nextId, tasks, loadsSent, loadsBack, toast, others>>

\* handleDrop after its await
HandleDropReturn ==
  /\ drop # <<>>
  /\ IF drop[1].error
     THEN /\ toast' = <<"Error movent tasca", "">>
          /\ UNCHANGED tasks
     ELSE /\ tasks' = DropPatch(tasks, drop[1].id, drop[1].newStatus)
          /\ toast' = <<"Tasca moguda", drop[1].newStatus>>
  /\ draggedTask' = <<>>
  /\ drop' = <<>>
  /\ UNCHANGED <<store, nextId, loadsSent, loadsBack, gestures, others>>

\* TaskModal.handleSave for an existing task: update(data).eq("id", task.id), then
\* onSaved (loadTasks). The modal belongs to the column that shows the task.
ModalSave ==
  \E i \in 1..Len(tasks), title \in {"B", "C"}, priority \in {"low", "high"}, fail \in BOOLEAN :
    LET data == [user_id |-> UserId, title |-> title, status |-> tasks[i].status,
                 priority |-> priority]
        res == IF fail THEN StoreFailure(store)
               ELSE StoreUpdate(store, EqId(store, tasks[i].id), data)
    IN /\ Gesture
       /\ CanLoad
       /\ store' = res.rows
       /\ IF res.error
          THEN /\ toast' = <<"Error", "Error desant la tasca">>
               /\ UNCHANGED loadsSent
          ELSE /\ toast' = <<"Tasca actualitzada", "">>
               /\ loadsSent' = loadsSent + 1
       /\ UNCHANGED <<nextId, tasks, draggedTask, drop, loadsBack, others>>

\* TaskModal.handleSave for a new task of a column: insert(data), then onSaved.
\* data names no position: the row gets the column default.
ModalCreate ==
  \E status \in Statuses, fail \in BOOLEAN :
    LET data == [Row(nextId, UserId, "B", "medium", status, 0, Null) EXCEPT !.status = status]
        res == IF fail THEN StoreFailure(store) ELSE StoreInsert(store, data)
    IN /\ Gesture
       /\ CanLoad
       /\ nextId <= MaxRows
       /\ store' = res.rows
       /\ IF res.error
          THEN /\ toast' = <<"Error", "Error desant la tasca">>
               /\ UNCHANGED <<loadsSent, nextId>>
          ELSE /\ toast' = <<"Tasca creada!", "">>
               /\ loadsSent' = loadsSent + 1
               /\ nextId' = nextId + 1
       /\ UNCHANGED <<tasks, draggedTask, drop, loadsBack, others>>

\* TaskCard.handleDelete: delete().eq("id", task.id), then onDeleted (loadTasks).
CardDelete ==
  \E i \in 1..Len(tasks), fail \in BOOLEAN :
    LET res == IF fail THEN StoreFailure(store)
               ELSE StoreDelete(store, EqId(store, tasks[i].id))
    IN /\ Gesture
       /\ CanLoad
       /\ store' = res.rows
       /\ IF res.error
          THEN /\ toast' = <<"Error eliminant", "">>
               /\ UNCHANGED loadsSent
          ELSE /\ loadsSent' = loadsSent + 1
               /\ UNCHANGED toast
       /\ UNCHANGED <<nextId, tasks, draggedTask, drop, loadsBack, others>>

NextBoard ==
  \/ LoadTasks
  \/ LoadTasksQuery
  \/ LoadTasksReturn
  \/ DragStart
  \/ HandleDrop
  \/ HandleDropReturn
  \/ ModalSave
  \/ ModalCreate
  \/ CardDelete

\* ------------------------------------------------------------------ gateway
\* One entry of choices[0].message.tool_calls. malformed: function.arguments is
\* not JSON. A field the arguments do not name is Undefined.
Call(name, id, title, priority, status) ==
  [name |-> name, malformed |-> FALSE, task_id |-> id, title |-> title,
   priority |-> priority, status |-> status]

EditIds == {1, 2, 4}

\* priority enum of the tool schema
Priorities == {"low", "medium", "high"}

CreateCalls ==
  {Call("create_task", 0, "A", "low", s) : s \in {"todo", "done", "blocked"}} \cup
  {Call("create_task", 0, "", "low", "todo"), Call("create_task", 0, "A", "urgent", "todo")}
EditCalls ==
  {Call("edit_task", id, Undefined, f[1], f[2]) :
     id \in EditIds,
     f \in {<<"high", Undefined>>, <<Undefined, "todo">>}}
DeleteCalls == {Call("delete_task", id, Undefined, Undefined, Undefined) : id \in EditIds}
OtherCalls ==
  { Call("move_task", 1, Undefined, Undefined, Undefined),
    [Call("edit_task", 1, Undefined, Undefined, Undefined) EXCEPT !.malformed = TRUE] }
ToolCalls == CreateCalls \cup EditCalls \cup DeleteCalls \cup OtherCalls

MaxBatch == 2
MaxSends == 3
Batches == UNION {[1..n -> ToolCalls] : n \in 0..MaxBatch}

\* What fetch and resp.json() can give sendMessage.
Response(kind, content, calls) == [kind |-> kind, content |-> content, tool_calls |-> calls]
FailureKinds == {"429", "402", "500", "network", "error_payload"}
Responses ==
  {Response(k, <<>>, <<>>) : k \in FailureKinds} \cup
  {Response("ok", <<>>, b) : b \in Batches} \cup
  {Response("ok", <<"Fet!">>, b) : b \in {c \in Batches : Len(c) <= 1}}

Greeting == [id |-> "welcome", role |-> "assistant", content |-> <<"Hola!">>, action |-> <<>>]
Restarted == [id |-> "welcome", role |-> "assistant", content |-> <<"Conversa reiniciada.">>,
              action |-> <<>>]

InitChat ==
  /\ messages = <<Greeting>>
  /\ loading = FALSE
  /\ pc = "idle"
  /\ resp = <<>>
  /\ cTasks = <<>>
  /\ results = <<>>
  /\ actionResult = <<>>
  /\ requests = 0
  /\ accepted = 0
  /\ chatLog = <<>>
  /\ invoked = 0
  /\ lastText = <<>>

\* ------------------------------------------------------------------ executeToolCall
ExecToast == <<"Error executant l'accio", "">>

\* tasks.find((t) => t.id === task_id)?.title ?? "tasca"
FindTitle(ts, id) ==
  IF \E i \in 1..Len(ts) : ts[i].id = id
  THEN ts[CHOOSE i \in 1..Len(ts) : ts[i].id = id].title
  ELSE "tasca"

\* cleanUpdates
CleanUpdatesFull(args) ==
  [title |-> args.title,
   priority |-> IF args.priority = Undefined THEN "medium" ELSE args.priority,
   status |-> args.status]
CleanUpdates(args) ==
  [title |-> args.title, priority |-> args.priority, status |-> args.status]

\* the rows an edit_task or delete_task call addresses
ToolMatch(S, id) == EqIdAndOwner(S, id, UserId)

\* executeToolCall(toolName, args) against store S; fail: the store call fails.
\* Gives the store after the call, the value returned, the toast shown and whether
\* onTasksChanged was called.
ExecuteToolCall(call, S, nid, ts, fail) ==
  LET out(res, type, title) ==
        IF res.error
        THEN [rows |-> res.rows, inserted |-> 0, result |-> <<>>,
              toast |-> <<ExecToast>>, changed |-> FALSE]
        ELSE [rows |-> res.rows, inserted |-> IF type = "create" THEN 1 ELSE 0,
              result |-> <<[type |-> type, taskTitle |-> title]>>,
              toast |-> <<>>, changed |-> TRUE]
  IN CASE call.name = "create_task" ->
            LET row == [id |-> nid, user_id |-> UserId, title |-> call.title,
                        priority |-> call.priority, status |-> call.status,
                        position |-> Len(ts), created_at |-> nid,
                        finalitzacio_tasca |-> Null]
            IN out(IF fail THEN StoreFailure(S) ELSE StoreInsert(S, row),
                   "create", call.title)
       [] call.name = "edit_task" ->
            out(IF fail THEN StoreFailure(S)
                ELSE StoreUpdate(S, ToolMatch(S, call.task_id), CleanUpdates(call)),
                "edit", FindTitle(ts, call.task_id))
       [] call.name = "delete_task" ->
            out(IF fail THEN StoreFailure(S)
                ELSE StoreDelete(S, ToolMatch(S, call.task_id)),
                "delete", FindTitle(ts, call.task_id))
       [] OTHER ->
            [rows |-> S, inserted |-> 0, result |-> <<>>, toast |-> <<>>,
             changed |-> FALSE]

\* the sentence used when the model sent tool calls and no text
Fallback(ar) ==
  IF ar = <<>> THEN <<"Accio realitzada correctament!">>
  ELSE CASE ar[1].type = "create" -> <<"Tasca", ar[1].taskTitle, "creada correctament!">>
         [] ar[1].type = "edit" -> <<"Tasca", ar[1].taskTitle, "editada correctament!">>
         [] ar[1].type = "delete" -> <<"Tasca", ar[1].taskTitle, "eliminada correctament!">>

\* ------------------------------------------------------------------ sendMessage
ConnToast == <<"Error", "No s'ha pogut connectar amb la IA.">>
RateToast == <<"Limit superat", "Massa sol.licituds. Torna a intentar-ho.">>
QuotaToast == <<"Credits esgotats", "Afegeix credits per continuar.">>

\* setMessages((prev) => [...prev, m])
PrependMessage(prev, m) == <<m>> \o prev
AppendMessage(prev, m) == prev \o <<m>>

UserMsg(text) == [id |-> "user", role |-> "user", content |-> <<text>>, action |-> <<>>]
AssistantMsg(content, ar) ==
  [id |-> "assistant", role |-> "assistant", content |-> content, action |-> ar]

\* what the input box may hold when sendMessage is invoked
Inputs == {<<"hola">>, <<>>, <<Blank>>}

\* if (!text || loading) return
RefusedWhenBlank(input, busy) == Trim(input) = <<>>
Refused(input, busy) == Trim(input) = <<>> \/ busy

\* sendMessage up to the await of fetch: the message is accepted and the request
\* leaves. turns: the turns the user takes.
Send(turns) ==
  \E input \in Inputs :
    /\ ~Refused(input, loading)
    /\ accepted < turns
    /\ invoked' = invoked + 1
    /\ lastText' = Trim(input)
    /\ messages' = AppendMessage(messages, UserMsg(Trim(input)[1]))
    /\ loading' = TRUE
    /\ cTasks' = tasks
    /\ resp' = <<>>
    /\ results' = <<>>
    /\ actionResult' = <<>>
    /\ requests' = requests + 1
    /\ accepted' = accepted + 1
    /\ pc' = "fetch"
    /\ UNCHANGED <<boardVars, chatLog, streamVars, rateVars, relayVars>>

SendMessage == Send(MaxTurns)

\* sendMessage returning at its first line
SendRefused ==
  \E input \in Inputs :
    /\ Refused(input, loading)
    /\ invoked < MaxSends
    /\ invoked' = invoked + 1
    /\ lastText' = Trim(input)
    /\ UNCHANGED <<boardVars, messages, loading, pc, resp, cTasks, results, actionResult>>
    /\ UNCHANGED <<requests, accepted, chatLog, streamVars, rateVars, relayVars>>

\* the requests fetch sends for a response before sendMessage goes on
RetryOn429(r) == IF r.kind = "429" THEN 1 ELSE 0
Retries(r) == 0

\* what a response without tool calls is turned into
IgnoreErrorPayload(r) == r.kind \in {"ok", "error_payload"}
Succeeded(r) == r.kind = "ok"

\* the toast of a failed request
FailureToast(r) ==
  CASE r.kind = "429" -> RateToast
    [] r.kind = "402" -> QuotaToast
    [] OTHER -> ConnToast

\* sendMessage from the answer of fetch up to the first tool call (or to the end).
\* setLoading(false): before the return of the 429 and 402 branches, and in finally
LoadingKept(l) == l
SetLoadingFalse(l) == FALSE

Receive(answers) ==
  \E r \in answers :
    /\ pc = "fetch"
    /\ resp' = <<r>>
    /\ requests' = requests + Retries(r)
    /\ IF ~Succeeded(r)
       THEN /\ toast' = FailureToast(r)
            /\ loading' = SetLoadingFalse(loading)
            /\ pc' = "idle"
            /\ UNCHANGED messages
       ELSE IF Len(r.tool_calls) > 0
       THEN /\ pc' = "tools"
            /\ UNCHANGED <<messages, loading, toast>>
       ELSE /\ messages' = AppendMessage(messages, AssistantMsg(r.content, <<>>))
            /\ pc' = "persist"
            /\ UNCHANGED <<loading, toast>>
    /\ UNCHANGED <<store, nextId, tasks, draggedTask, drop, loadsSent, loadsBack, gestures>>
    /\ UNCHANGED <<cTasks, results, actionResult, accepted, chatLog, invoked, lastText>>
    /\ UNCHANGED <<streamVars, rateVars, relayVars>>

ReceiveResponse == Receive(Responses)

\* the order in which the batch is run: the k-th call run is batch[RunOrder(batch, k)]
RunReversed(batch, k) == Len(batch) + 1 - k
RunOrder(batch, k) == k

\* One iteration of the loop over tool_calls: JSON.parse, executeToolCall, and after
\* the last call the assistant message.
ToolStep ==
  LET batch == resp[1].tool_calls
      k == Len(results) + 1
      call == batch[RunOrder(batch, k)]
  IN /\ pc = "tools"
     /\ IF call.malformed
        THEN /\ toast' = ConnToast
             /\ loading' = SetLoadingFalse(loading)
             /\ pc' = "idle"
             /\ UNCHANGED <<store, nextId, loadsSent, messages, results, actionResult>>
        ELSE \E fail \in BOOLEAN :
               LET out == ExecuteToolCall(call, store, nextId, cTasks, fail)
                   content == IF resp[1].content # <<>> THEN resp[1].content
                              ELSE Fallback(out.result)
               IN /\ CanLoad
                  /\ nextId + out.inserted <= MaxRows + 1
                  /\ store' = out.rows
                  /\ nextId' = nextId + out.inserted
                  /\ toast' = IF out.toast # <<>> THEN out.toast[1] ELSE toast
                  /\ loadsSent' = IF out.changed THEN loadsSent + 1 ELSE loadsSent
                  /\ results' = Append(results, out.result)
                  /\ actionResult' = out.result
                  /\ IF k = Len(batch)
                     THEN /\ messages' = AppendMessage(messages, AssistantMsg(content, out.result))
                          /\ pc' = "persist"
                     ELSE UNCHANGED <<messages, pc>>
                  /\ UNCHANGED loading
     /\ UNCHANGED <<tasks, draggedTask, drop, loadsBack, gestures>>
     /\ UNCHANGED <<resp, cTasks, requests, accepted, chatLog, invoked, lastText>>
     /\ UNCHANGED <<streamVars, rateVars, relayVars>>

\* assistantContent of the turn: the model's text, else the fallback sentence
AssistantContent ==
  IF resp[1].content # <<>> THEN resp[1].content
  ELSE IF Len(resp[1].tool_calls) > 0 THEN Fallback(actionResult)
  ELSE <<>>

\* insert into chat_messages: the error the call returns is not read
PersistInsert(log, content, fail) == IF fail THEN log ELSE Append(log, content)

\* the chat message is stored, then finally { setLoading(false) }
Persist ==
  \E fail \in BOOLEAN :
    /\ pc = "persist"
    /\ chatLog' = PersistInsert(chatLog, AssistantContent, fail)
    /\ loading' = SetLoadingFalse(loading)
    /\ pc' = "idle"
    /\ UNCHANGED <<boardVars, messages, resp, cTasks, results, actionResult, requests, accepted>>
    /\ UNCHANGED <<invoked, lastText, streamVars, rateVars, relayVars>>

clearChat ==
  /\ messages' = <<Restarted>>
  /\ UNCHANGED <<boardVars, loading, pc, resp, cTasks, results, actionResult, requests, accepted>>
  /\ UNCHANGED <<chatLog, invoked, lastText, streamVars, rateVars, relayVars>>

NextChat ==
  \/ SendMessage
  \/ ReceiveResponse
  \/ ToolStep
  \/ Persist
  \/ clearChat

InitStream ==
  /\ sse = <<>>
  /\ delivered = 0
  /\ buffer = <<>>
  /\ assistantContent = <<>>
  /\ sMessages = <<>>
  /\ sPc = "end"

InitRate ==
  /\ doneLen = 0
  /\ tasksLen = 0
  /\ completionRate = <<>>

\* no request has reached the relay
InitRelay ==
  /\ relayReq = <<>>
  /\ relayResp = <<>>
  /\ boardContext = <<>>
  /\ systemPrompt = <<>>

Init == InitBoard /\ InitChat /\ InitStream /\ InitRate /\ InitRelay
Next == NextBoard \/ NextChat
Spec == Init /\ [][Next]_vars

\* The chat alone: turns, tool calls and the reloads they trigger.
NextTurn == NextChat \/ LoadTasksQuery \/ LoadTasksReturn
SpecChat == Init /\ [][NextTurn]_vars

\* The board alone.
SpecBoard == Init /\ [][NextBoard]_vars

\* Consecutive turns, with the invocations of sendMessage that are turned away; the
\* gateway's answers are a few of Responses.
FewBatches ==
  { <<Call("create_task", 0, "A", "low", "todo")>>,
    <<Call("delete_task", 3, Undefined, Undefined, Undefined)>>,
    <<Call("create_task", 0, "A", "low", "todo"),
      Call("edit_task", 4, Undefined, "high", Undefined)>> }
FewResponses ==
  {Response("429", <<>>, <<>>), Response("ok", <<"Fet!">>, <<>>)} \cup
  {Response("ok", <<>>, b) : b \in FewBatches}
SendAgain == Send(MaxTurns + 1)
ReceiveFew == Receive(FewResponses)
NextTurns ==
  \/ SendAgain
  \/ SendRefused
  \/ ReceiveFew
  \/ ToolStep
  \/ Persist
  \/ LoadTasksQuery
  \/ LoadTasksReturn
SpecTurns == Init /\ [][NextTurns]_vars

\* One turn whose network calls all return or fail: the gateway request, the store call
\* of a tool call, the insert of the chat message, and the reload queries.
LiveResponses ==
  {Response(k, <<>>, <<>>) : k \in FailureKinds} \cup FewResponses \cup
  {Response("ok", <<>>, <<c>>) : c \in OtherCalls}
ReceiveLive == Receive(LiveResponses)
NextLive ==
  \/ SendMessage
  \/ ReceiveLive
  \/ ToolStep
  \/ Persist
  \/ clearChat
  \/ LoadTasksQuery
  \/ LoadTasksReturn
SpecLive ==
  /\ Init
  /\ [][NextLive]_vars
  /\ WF_vars(ReceiveLive)
  /\ WF_vars(ToolStep)
  /\ WF_vars(Persist)
  /\ WF_vars(LoadTasksQuery)
  /\ WF_vars(LoadTasksReturn)

\* ------------------------------------------------------------------ streaming chat
\* The response body is a sequence of tokens. A token is a piece of text that holds
\* no line break, or the line break itself; a network chunk may end after any token.
LF == "\n"
DataPrefix == "data: "
DoneSentinel == "[DONE]"
Comment == ": ping"
Junk == "{\"choices\":[{\"delta\""
JsonTokens == {"{Hel}", "{lo}", "{}"}

\* parsed.choices?.[0]?.delta?.content of a JSON token
DeltaContent(tok) ==
  CASE tok = "{Hel}" -> <<"Hel">>
    [] tok = "{lo}" -> <<"lo">>
    [] OTHER -> <<>>

MaxLines == 4
LineKinds ==
  { <<DataPrefix, "{Hel}", LF>>,
    <<DataPrefix, "{lo}", CR, LF>>,
    <<DataPrefix, DoneSentinel, LF>>,
    <<DataPrefix, Junk, LF>>,
    <<Comment, LF>>,
    <<LF>>,
    <<DataPrefix, "{lo}">>,
    <<DataPrefix, "{He", "l}", LF>> }

RECURSIVE Flatten(_)
Flatten(ls) == IF ls = <<>> THEN <<>> ELSE Head(ls) \o Flatten(Tail(ls))

\* the bodies the gateway may send
Streams == {Flatten(ls) : ls \in UNION {[1..n -> LineKinds] : n \in 1..MaxLines}}

\* buffer.indexOf("\n"), 0 when there is none
IndexOfLF(buf) ==
  IF \E i \in 1..Len(buf) : buf[i] = LF
  THEN CHOOSE i \in 1..Len(buf) : buf[i] = LF /\ \A j \in 1..(i - 1) : buf[j] # LF
  ELSE 0

\* if (line.endsWith("\r")) line = line.slice(0, -1)
StripCR(line) ==
  IF line # <<>> /\ line[Len(line)] = CR THEN SubSeq(line, 1, Len(line) - 1) ELSE line

\* line.startsWith(":") || !line.trim()
Ignored(line) == IF Trim(line) = <<>> THEN TRUE ELSE Head(line) = Comment
\* line.startsWith("data: ")
IsData(line) == IF line = <<>> THEN FALSE ELSE Head(line) = DataPrefix
\* the text of a payload that arrived in pieces: "{He" and "l}" make "{Hel}", any other
\* pieces make a text that is not JSON
NotJson == "?"
JsonText(jsonStr) ==
  IF Len(jsonStr) = 1 THEN jsonStr[1]
  ELSE IF jsonStr = <<"{He", "l}">> THEN "{Hel}"
  ELSE NotJson
\* JSON.parse(jsonStr) does not throw
Parses(jsonStr) == JsonText(jsonStr) \in JsonTokens

\* buffer = line + "\n" + buffer
PutBackDropped(line, rest) == rest
PutBack(line, rest) == line \o <<LF>> \o rest

\* buffer += decoder.decode(value, { stream: true })
BufferReplace(buf, chunk) == chunk
BufferAppend(buf, chunk) == buf \o chunk

\* the inner while loop: takes complete lines off the buffer until none is left, the
\* sentinel is met, or a payload does not parse (put back, break).
RECURSIVE Drain(_, _)
Drain(buf, content) ==
  LET idx == IndexOfLF(buf)
      line == StripCR(SubSeq(buf, 1, idx - 1))
      rest == SubSeq(buf, idx + 1, Len(buf))
      jsonStr == Trim(Tail(line))
  IN IF idx = 0 THEN [buffer |-> buf, content |-> content, done |-> FALSE]
     ELSE IF Ignored(line) THEN Drain(rest, content)
     ELSE IF ~IsData(line) THEN Drain(rest, content)
     ELSE IF jsonStr = <<DoneSentinel>>
       THEN [buffer |-> rest, content |-> content, done |-> TRUE]
     ELSE IF Parses(jsonStr) THEN Drain(rest, content \o DeltaContent(JsonText(jsonStr)))
     ELSE [buffer |-> PutBack(line, rest), content |-> content, done |-> FALSE]

StreamMsg(content) ==
  [id |-> "assistant-stream", role |-> "assistant", content |-> content, action |-> <<>>]

\* setMessages: the assistant message of this turn is replaced, or appended
ShowContent(prev, content) ==
  IF prev[Len(prev)].id = "assistant-stream"
  THEN [prev EXCEPT ![Len(prev)] = StreamMsg(content)]
  ELSE Append(prev, StreamMsg(content))

\* the state after resp.body.getReader(): the user's message is shown, the body is
\* about to arrive
InitReading ==
  /\ sse \in Streams
  /\ delivered = 0
  /\ buffer = <<>>
  /\ assistantContent = <<>>
  /\ sMessages = <<Greeting, UserMsg("hola")>>
  /\ sPc = "read"

\* One iteration of the outer loop: reader.read() gives the next chunk or the end of
\* the stream; the chunk is appended to the buffer and the buffer drained.
Read ==
  /\ sPc = "read"
  /\ \/ /\ delivered = Len(sse)
        /\ sPc' = "end"
        /\ UNCHANGED <<delivered, buffer, assistantContent, sMessages>>
     \/ \E n \in 1..(Len(sse) - delivered) :
          LET chunk == SubSeq(sse, delivered + 1, delivered + n)
              d == Drain(BufferAppend(buffer, chunk), assistantContent)
          IN /\ delivered' = delivered + n
             /\ buffer' = d.buffer
             /\ assistantContent' = d.content
             /\ sMessages' = IF d.content # assistantContent
                             THEN ShowContent(sMessages, d.content) ELSE sMessages
             /\ sPc' = IF d.done THEN "end" ELSE "read"
  /\ UNCHANGED <<sse, boardVars, chatVars, rateVars, relayVars>>

InitStreaming == InitBoard /\ InitChat /\ InitReading /\ InitRate /\ InitRelay
SpecStream == InitStreaming /\ [][Read]_vars

\* ------------------------------------------------------------------ completion rate
\* Math.round((doneTasks.length / tasks.length) * 100) in IEEE 754 double arithmetic.
\* A significand is kept in limbs of 18 bits, most significant first.
Limb == 2^18
MaxTasksLen == 40

\* doneLen / tasksLen for 0 < doneLen < tasksLen: the quotient rounded to 53 bits
\* (nearest, ties to even) as <<hi, mid, lo>> with value (hi*2^36 + mid*2^18 + lo) * 2^(-k-52)
FloatDiv(d, t) ==
  LET k == CHOOSE k \in 1..30 : d * 2^k >= t /\ d * 2^(k - 1) < t
      a == d * 2^k * 65536
      hi == a \div t
      r1 == a % t
      mid == (r1 * Limb) \div t
      r2 == (r1 * Limb) % t
      lo == (r2 * Limb) \div t
      r3 == (r2 * Limb) % t
      up == IF 2 * r3 > t THEN 1 ELSE IF 2 * r3 = t /\ lo % 2 = 1 THEN 1 ELSE 0
      lo1 == lo + up
      mid1 == mid + (lo1 \div Limb)
      hi1 == hi + (mid1 \div Limb)
  IN [k |-> k, hi |-> hi1, mid |-> mid1 % Limb, lo |-> lo1 % Limb]

\* q * 100: the exact product, then rounded to 53 bits (nearest, ties to even), as
\* <<top, hi, mid, lo>> with value (top*2^54 + hi*2^36 + mid*2^18 + lo) * 2^(-k-52)
FloatTimes100(q) ==
  LET l0 == q.lo * 100
      l1 == q.mid * 100 + (l0 \div Limb)
      l2 == q.hi * 100 + (l1 \div Limb)
      top == l2 \div Limb
      hi == l2 % Limb
      mid == l1 % Limb
      lo == l0 % Limb
      s == IF top >= 64 THEN 8 ELSE IF top >= 32 THEN 7 ELSE 6
      low == lo % 2^s
      keep == lo \div 2^s
      up == IF low > 2^(s - 1) THEN 1
            ELSE IF low = 2^(s - 1) /\ keep % 2 = 1 THEN 1 ELSE 0
      lo1 == (keep + up) * 2^s
      mid1 == mid + (lo1 \div Limb)
      hi1 == hi + (mid1 \div Limb)
      top1 == top + (hi1 \div Limb)
  IN [k |-> q.k, top |-> top1, hi |-> hi1 % Limb, mid |-> mid1 % Limb, lo |-> lo1 % Limb]

\* Math.round(x): the nearest integer, a half rounded up
MathRound(x) ==
  LET h == x.top * Limb + x.hi       \* x * 2^(k+52) / 2^36
      f == x.k + 16                   \* bits of h behind the binary point
  IN (h \div 2^f) + ((h \div 2^(f - 1)) % 2)

\* tasks.length > 0 ? Math.round((doneTasks.length / tasks.length) * 100) : 0
CompletionRate(d, t) ==
  IF t > 0
  THEN (IF d = 0 THEN 0 ELSE IF d = t THEN 100 ELSE MathRound(FloatTimes100(FloatDiv(d, t))))
  ELSE 0

\* a task list with doneLen done tasks among tasksLen
InitLengths ==
  /\ tasksLen \in 0..MaxTasksLen
  /\ doneLen \in 0..tasksLen
  /\ completionRate = <<>>

\* the render: completionRate is computed from the two lengths
Render ==
  /\ completionRate = <<>>
  /\ completionRate' = <<CompletionRate(doneLen, tasksLen)>>
  /\ UNCHANGED <<doneLen, tasksLen, boardVars, chatVars, streamVars, relayVars>>

InitRender == InitBoard /\ InitChat /\ InitStream /\ InitLengths /\ InitRelay
SpecRate == InitRender /\ [][Render]_vars

\* ------------------------------------------------------------------ relay (kanban-chat)
\* Texts are token sequences, as in the streaming chat: Obj is the text of a JSON
\* document without insignificant whitespace, Html a text that is not JSON.
Obj == "{\"choices\":[]}"
Html == "<html>"
RateError == "{\"error\":\"Rate limit exceeded. Please try again in a moment.\"}"
QuotaError == "{\"error\":\"AI usage limit reached. Please add credits to continue.\"}"
ServiceError == "{\"error\":\"AI service error. Please try again.\"}"
CaughtError == "{\"error\":e.message}"

\* what the upstream can answer: a status and a body, or nothing (fetch rejects)
UpstreamStatuses == {200, 201, 400, 402, 429, 500, 503}
UpstreamBodies == {<<Obj>>, <<Obj, Blank>>, <<Blank, Obj>>, <<Html>>, <<>>}
Upstreams ==
  {[rejects |-> TRUE, status |-> 0, body |-> <<>>]} \cup
  {[rejects |-> FALSE, status |-> st, body |-> b] : st \in UpstreamStatuses, b \in UpstreamBodies}

\* a request to the function: its method, whether req.json() reads the body, whether
\* LOVABLE_API_KEY is set, and what the upstream will answer
RelayRequests ==
  [method : {"OPTIONS", "POST"}, json_ok : BOOLEAN, api_key : BOOLEAN, upstream : Upstreams]

\* new Response(body, {status})
Reply(status, body) == [status |-> status, body |-> body]

\* response.ok
ResponseOk(status) == status \in 200..299

\* JSON.parse: whitespace around the document is skipped; <<>> when it throws
JSONParse(text) == IF Trim(text) = <<Obj>> THEN <<Obj>> ELSE <<>>

\* JSON.stringify: the text without insignificant whitespace
JSONStringify(value) == <<value>>

\* the answer to a non-success upstream status
UpstreamErrorGeneric(status) == Reply(500, <<ServiceError>>)
UpstreamError(status) ==
  IF status = 429 THEN Reply(429, <<RateError>>)
  ELSE IF status = 402 THEN Reply(402, <<QuotaError>>)
  ELSE Reply(500, <<ServiceError>>)

\* the handler given to serve
serve(req) ==
  IF req.method = "OPTIONS" THEN Reply(200, <<>>)
  ELSE IF ~req.json_ok \/ ~req.api_key \/ req.upstream.rejects
  THEN Reply(500, <<CaughtError>>)
  ELSE IF ~ResponseOk(req.upstream.status) THEN UpstreamError(req.upstream.status)
  ELSE LET data == JSONParse(req.upstream.body)
       IN IF data = <<>> THEN Reply(500, <<CaughtError>>)
          ELSE Reply(200, JSONStringify(data[1]))

\* the boardContext the chat puts into the request body
ContextEntry(t) == [id |-> t.id, title |-> t.title, status |-> t.status, priority |-> t.priority]
BoardContextOfTodo(ts) ==
  [todoCount |-> Len(Partition(ts, "todo")),
   inProgressCount |-> Len(Partition(ts, "in_progress")),
   doneCount |-> Len(Partition(ts, "done")),
   tasks |-> [i \in 1..Len(Partition(ts, "todo")) |-> ContextEntry(Partition(ts, "todo")[i])]]
BoardContext(ts) ==
  [todoCount |-> Len(Partition(ts, "todo")),
   inProgressCount |-> Len(Partition(ts, "in_progress")),
   doneCount |-> Len(Partition(ts, "done")),
   tasks |-> [i \in 1..Len(ts) |-> ContextEntry(ts[i])]]

\* `- ID: ${t.id} | "${t.title}" | ${t.status} | ${t.priority} priority`
TaskLine(t) ==
  <<"- ID: ", ToString(t.id), " | \"", t.title, "\" | ", t.status, " | ", t.priority, " priority">>

\* lines.join("\n")
RECURSIVE Join(_)
Join(lines) ==
  IF lines = <<>> THEN <<>>
  ELSE IF Len(lines) = 1 THEN lines[1]
  ELSE lines[1] \o <<LF>> \o Join(Tail(lines))

NoTasksYet == "No tasks yet"

\* boardContext?.tasks?.map(...).join("\n") || "No tasks yet"
TaskList(ctx) ==
  LET lines == IF ctx = <<>> THEN <<>>
               ELSE [i \in 1..Len(ctx[1].tasks) |-> TaskLine(ctx[1].tasks[i])]
      joined == Join(lines)
  IN IF Len(joined) = 0 THEN <<NoTasksYet>> ELSE joined

\* the board state part of systemPrompt (boardContext?.todoCount ?? 0, ...)
SystemPrompt(ctx) ==
  [todo |-> IF ctx = <<>> THEN 0 ELSE ctx[1].todoCount,
   inProgress |-> IF ctx = <<>> THEN 0 ELSE ctx[1].inProgressCount,
   done |-> IF ctx = <<>> THEN 0 ELSE ctx[1].doneCount,
   taskList |-> TaskList(ctx)]

\* one invocation of the function: by the chat, with its boardContext in the body, or
\* by a caller that sends none
Serve ==
  \E req \in RelayRequests, ctx \in {<<>>, <<BoardContext(tasks)>>} :
    /\ relayReq' = <<req>>
    /\ relayResp' = <<serve(req)>>
    /\ boardContext' = IF req.method = "POST" /\ req.json_ok THEN ctx ELSE <<>>
    /\ systemPrompt' = IF req.method = "POST" /\ req.json_ok /\ req.api_key
                       THEN <<SystemPrompt(ctx)>> ELSE <<>>
    /\ UNCHANGED <<boardVars, chatVars, streamVars, rateVars>>

SpecRelay == Init /\ [][Serve]_vars

\* The chat's request on a loaded board: the table holds any of these rows when the page
\* is opened.
BoardRows == InitialRows \cup {Row(4, UserId, "A", "high", "in_progress", 2, Null)}
InitPrompt ==
  /\ store \in {S \in SUBSET BoardRows : \E r \in S : r.user_id = OtherUser}
  /\ nextId = 5
  /\ tasks = <<>>
  /\ draggedTask = <<>>
  /\ drop = <<>>
  /\ loadsSent = 1
  /\ loadsBack = {}
  /\ toast = NoToast
  /\ gestures = 0
  /\ InitChat /\ InitStream /\ InitRate /\ InitRelay
NextPrompt == Serve \/ LoadTasksQuery \/ LoadTasksReturn
SpecPrompt == InitPrompt /\ [][NextPrompt]_vars

\* ------------------------------------------------------------------ claims
\* the call a ToolStep is about to run, and whether this step runs one
CurrentCall == resp[1].tool_calls[Len(results) + 1]
RunsCall == IF pc = "tools" THEN Len(results') = Len(results) + 1 ELSE FALSE
RunsEditOrDelete ==
  IF RunsCall THEN CurrentCall.name \in {"edit_task", "delete_task"} ELSE FALSE
Addressed == {r \in store : r.id = CurrentCall.task_id /\ r.user_id = UserId}
ForeignRow == Row(2, OtherUser, "B", "medium", "todo", 0, Null)

\* C1: an edit_task or delete_task call with task_id X run for caller U changes or
\* removes only the stored row with id X and owner U; when there is no such row the
\* store is left as it was.
C1_OnlyAddressedRow ==
  [][RunsEditOrDelete =>
       /\ (store \ Addressed) \subseteq store'
       /\ \A r \in store' \ store : r.id = CurrentCall.task_id /\ r.user_id = UserId
       /\ (Addressed = {} => store' = store)]_vars

\* C1 witness: a delete_task naming another user's task went through the store and
\* that task is still there.
C1_Witness ==
  /\ Len(results) >= 1
  /\ resp[1].tool_calls[1] = Call("delete_task", 2, Undefined, Undefined, Undefined)
  /\ results[1] # <<>>
  /\ ForeignRow \in store

\* C2: an edit_task or delete_task call that matches no row is a failure: it gives no
\* ActionResult and shows the failure notice.
C2_ZeroRowsIsFailure ==
  [][(IF RunsEditOrDelete THEN Addressed = {} ELSE FALSE) =>
       /\ results'[Len(results')] = <<>>
       /\ toast' = ExecToast]_vars

\* C3: the calls of a batch run in the order received, each on the store the previous
\* one left: after [create_task(A), edit_task(id of that task, priority high)] there is
\* exactly one new task titled A, and its priority is high.
C3_CreateThenEdit ==
  (IF pc = "persist" /\ Len(results) = 2
   THEN /\ resp[1].tool_calls[1].name = "create_task"
        /\ resp[1].tool_calls[2].name = "edit_task"
        /\ resp[1].tool_calls[2].priority = "high"
        /\ resp[1].tool_calls[2].task_id = nextId - 1
        /\ results[1] # <<>>
        /\ results[2] # <<>>
   ELSE FALSE)
  => LET id == resp[1].tool_calls[2].task_id
         new == {r \in store : r.id >= id /\ r.title = resp[1].tool_calls[1].title}
     IN /\ Cardinality(new) = 1
        /\ \A r \in new : r.id = id /\ r.priority = "high" /\ r.user_id = UserId

\* C3 witness: such a batch has run, both calls without a store failure.
C3_Witness ==
  /\ pc = "persist"
  /\ resp[1].tool_calls = <<Call("create_task", 0, "A", "low", "todo"),
                            Call("edit_task", 4, Undefined, "high", Undefined)>>
  /\ results[1] # <<>>
  /\ results[2] # <<>>
  /\ nextId = 5

\* C5: a stored task has a completion timestamp exactly when its status is done.
C5_CompletionIffDone ==
  \A r \in store : (r.finalitzacio_tasca # Null) <=> (r.status = "done")

\* the step in which sendMessage learns that the request failed
RequestFails ==
  IF pc = "fetch" /\ resp' # <<>> THEN resp'[1].kind \in FailureKinds ELSE FALSE

\* C6: when the gateway request of a turn fails (429, 402, another non-success status,
\* an error payload, a network exception) the turn ends there: no assistant message is
\* appended, no tool call is run, the store is unchanged.
C6_FailureAborts ==
  [][RequestFails =>
       /\ messages' = messages
       /\ store' = store
       /\ results' = <<>>
       /\ pc' = "idle"
       /\ ~loading']_vars

\* C6 witness: a turn ended on an error payload; the list is the greeting and the
\* user's message.
C6_Witness ==
  /\ pc = "idle"
  /\ resp # <<>>
  /\ resp[1].kind = "error_payload"
  /\ messages = <<Greeting, UserMsg("hola")>>
  /\ store = InitialRows

\* C7: 429 and 402 give two different notices, and every accepted user message costs
\* exactly one gateway request, whatever the answer.
C7_DistinctNoRetry ==
  /\ [](requests = accepted)
  /\ [][RequestFails =>
          /\ (resp'[1].kind = "429" => toast' = RateToast)
          /\ (resp'[1].kind = "402" => toast' = QuotaToast)
          /\ (resp'[1].kind = "429" => toast' # QuotaToast)
          /\ (resp'[1].kind = "402" => toast' # RateToast)]_vars

\* C7 witness: a turn answered 402 has ended, one request sent.
C7_Witness ==
  /\ pc = "idle"
  /\ resp # <<>>
  /\ resp[1].kind = "402"
  /\ toast = QuotaToast
  /\ requests = 1
  /\ accepted = 1

\* C9: every task of the in-memory list has one of the three statuses, so the three
\* partitions together hold every task exactly once.
C9_ThreeBuckets ==
  /\ \A i \in 1..Len(tasks) : tasks[i].status \in Statuses
  /\ Len(Partition(tasks, "todo")) + Len(Partition(tasks, "in_progress"))
       + Len(Partition(tasks, "done")) = Len(tasks)

\* C9 witness: the store refused a create_task with status "blocked", and the list
\* holds tasks of two columns.
C9_Witness ==
  /\ Len(results) >= 1
  /\ resp[1].tool_calls[1] = Call("create_task", 0, "A", "low", "blocked")
  /\ results[1] = <<>>
  /\ Len(Partition(tasks, "todo")) >= 1
  /\ Len(Partition(tasks, "done")) >= 1

\* C10: within each partition the tasks are in (position, created_at) order.
C10_PartitionOrder ==
  \A status \in Statuses :
    LET p == Partition(tasks, status)
    IN \A i \in 1..Len(p), j \in 1..Len(p) : i < j => RowBefore(p[i], p[j])

\* C10 witness: a drop has just been patched in, and the target column holds two tasks.
C10_Witness ==
  /\ toast[1] = "Tasca moguda"
  /\ Len(Partition(tasks, toast[2])) >= 2

\* the lines of a whole body, line breaks dropped
RECURSIVE LinesOf(_)
LinesOf(body) ==
  IF body = <<>> THEN <<>>
  ELSE IF IndexOfLF(body) = 0 THEN <<body>>
  ELSE <<SubSeq(body, 1, IndexOfLF(body) - 1)>>
       \o LinesOf(SubSeq(body, IndexOfLF(body) + 1, Len(body)))

IsDataLine(l) == IF l = <<>> THEN FALSE ELSE Head(l) = DataPrefix
Payload(l) == SelectSeq(Tail(l), LAMBDA tok : ~IsSpace(tok))
IsDoneLine(l) == IF IsDataLine(l) THEN Payload(l) = <<DoneSentinel>> ELSE FALSE

\* the lines before the first [DONE] line
RECURSIVE BeforeDone(_)
BeforeDone(ls) ==
  IF ls = <<>> THEN <<>>
  ELSE IF IsDoneLine(Head(ls)) THEN <<>>
  ELSE <<Head(ls)>> \o BeforeDone(Tail(ls))

\* the content deltas of the data: lines among ls, in order
RECURSIVE Deltas(_)
Deltas(ls) ==
  IF ls = <<>> THEN <<>>
  ELSE (IF IsDataLine(Head(ls)) THEN DeltaContent(JsonText(Payload(Head(ls)))) ELSE <<>>)
       \o Deltas(Tail(ls))

HasDone(body) == \E i \in 1..Len(LinesOf(body)) : IsDoneLine(LinesOf(body)[i])
\* every data: line before the sentinel carries a JSON payload
WellFormed(body) ==
  \A i \in 1..Len(BeforeDone(LinesOf(body))) :
    LET l == BeforeDone(LinesOf(body))[i]
    IN IsDataLine(l) => JsonText(Payload(l)) \in JsonTokens

\* C4: for a body that ends with the [DONE] sentinel and whose data: lines carry JSON,
\* however it is cut into chunks, the assembled content is the deltas of the data:
\* lines before the sentinel, in order; blank lines, comment lines and everything after
\* the sentinel add nothing; the assistant message shown holds that content.
C4_StreamingDecode ==
  (sPc = "end" /\ HasDone(sse) /\ WellFormed(sse)) =>
    /\ assistantContent = Deltas(BeforeDone(LinesOf(sse)))
    /\ IF assistantContent = <<>>
       THEN sMessages = <<Greeting, UserMsg("hola")>>
       ELSE sMessages = <<Greeting, UserMsg("hola"), StreamMsg(assistantContent)>>

\* C4 witness: "Hel", a comment line, "lo", the sentinel; the content is "Hel" "lo".
C4_Witness ==
  /\ sPc = "end"
  /\ sse = <<DataPrefix, "{Hel}", LF, Comment, LF, DataPrefix, "{lo}", CR, LF,
             DataPrefix, DoneSentinel, LF>>
  /\ assistantContent = <<"Hel", "lo">>
  /\ sMessages[Len(sMessages)].content = <<"Hel", "lo">>

\* round(100 * d / t) in exact arithmetic, a half rounded up
ExactPercent(d, t) == (200 * d + t) \div (2 * t)

\* C8: the completion percentage is round(100 * done / total) when total > 0 and 0
\* when total = 0, an integer between 0 and 100.
C8_CompletionPercentage ==
  completionRate # <<>> =>
    /\ completionRate[1] \in 0..100
    /\ completionRate[1] = IF tasksLen > 0 THEN ExactPercent(doneLen, tasksLen) ELSE 0

\* the request reached the upstream and got an answer
Answered ==
  IF relayReq = <<>> THEN FALSE
  ELSE /\ relayReq[1].method = "POST"
       /\ relayReq[1].json_ok
       /\ relayReq[1].api_key
       /\ ~relayReq[1].upstream.rejects

\* the status mapping of the relay, common to both readings of C11
RelayStatusMapping ==
  relayReq # <<>> =>
    LET req == relayReq[1]
        up == req.upstream
        r == relayResp[1]
    IN /\ (Answered /\ up.status = 429 => r.status = 429)
       /\ (Answered /\ up.status = 402 => r.status = 402)
       /\ (Answered /\ ~ResponseOk(up.status) /\ up.status \notin {429, 402} => r.status = 500)
       /\ (req.method = "POST" /\ ~Answered => r.status = 500)

\* C11 as stated: 429 for 429, 402 for 402, 500 for every other non-success status and
\* for any internal exception, and whenever the upstream succeeds status 200 with the
\* upstream body unchanged.
C11_RelayBodyUnchanged ==
  /\ RelayStatusMapping
  /\ (Answered /\ ResponseOk(relayReq[1].upstream.status) =>
        relayResp[1] = Reply(200, relayReq[1].upstream.body))

\* C11 amended: the same status mapping; when the upstream succeeds with a body that is
\* a JSON document the answer is 200 with that document serialised again (the same
\* JSON value, whitespace not kept), and a success whose body is not JSON gives 500.
C11_RelayStatus ==
  /\ RelayStatusMapping
  /\ (Answered /\ ResponseOk(relayReq[1].upstream.status) =>
        IF JSONParse(relayReq[1].upstream.body) # <<>>
        THEN /\ relayResp[1].status = 200
             /\ JSONParse(relayResp[1].body) = JSONParse(relayReq[1].upstream.body)
        ELSE relayResp[1].status = 500)

\* C11 witness: the upstream answered 402 and the relay answered 402.
C11_Witness ==
  /\ Answered
  /\ relayReq[1].upstream.status = 402
  /\ relayResp[1].status = 402

\* C12: a sendMessage invoked while a turn is in flight or with blank input appends no
\* message, sends no request and runs no tool call; a message is accepted only when no
\* turn is in flight, so at most one turn is in flight.
C12_OneTurnInFlight ==
  [][/\ (invoked' # invoked /\ Refused(lastText', loading)) =>
          /\ messages' = messages
          /\ requests' = requests
          /\ accepted' = accepted
          /\ results' = results
          /\ store' = store
          /\ pc' = pc
          /\ loading' = loading
     /\ (accepted' # accepted => ~loading /\ pc = "idle")
     /\ (loading' <=> pc' # "idle")]_vars

\* C12 witness: a turn is running its tool calls and the last invocation of sendMessage,
\* made after the turn began, was turned away.
C12_Witness ==
  /\ loading
  /\ pc = "tools"
  /\ accepted = 1
  /\ invoked > accepted
  /\ lastText = <<>>

\* a call of the turn that just finished changed the store
TurnMutated == \E i \in 1..Len(results) : results[i] # <<>>

\* C13: when a turn that made a successful mutation has finished and the next message
\* is accepted, the in-memory task list (the source of the next board context) is the
\* store's current list of the user's tasks.
C13_NextTurnSeesMutations ==
  [][(accepted' = accepted + 1 /\ TurnMutated) =>
       /\ tasks = SelectTasks(store, UserId)
       /\ cTasks' = SelectTasks(store, UserId)]_vars

\* C14: while calls of the batch remain to be run, no reload of the task list is
\* started, and none started by the batch is applied.
C14_NoReloadMidBatch ==
  [][(pc = "tools" /\ pc' = "tools") => loadsSent' <= loadsSent]_vars

\* the step runs a create_task call
RunsCreate == IF RunsCall THEN CurrentCall.name = "create_task" ELSE FALSE

\* C15: a create_task call with an empty title, a priority outside the enum or a status
\* outside the enum inserts nothing, gives no ActionResult and shows the error notice.
C15_CreateValidated ==
  [][(IF RunsCreate
      THEN \/ CurrentCall.title = ""
           \/ CurrentCall.priority \notin Priorities
           \/ CurrentCall.status \notin Statuses
      ELSE FALSE) =>
       /\ store' = store
       /\ results'[Len(results')] = <<>>
       /\ toast' = ExecToast]_vars

\* the caller's stored tasks of a column
Column(S, status) == {r \in S : r.user_id = UserId /\ r.status = status}

\* C16: a task inserted by create_task belongs to the caller and its position is the
\* number of tasks its column held, also for a later call of the batch.
C16_CreateAppends ==
  [][RunsCreate =>
       \A r \in store' \ store :
         /\ r.user_id = UserId
         /\ r.position = Cardinality(Column(store, r.status))]_vars

\* the row an edit_task call should leave: the named fields replaced, the rest kept
Edited(r, c) ==
  [r EXCEPT !.title = IF c.title # Undefined THEN c.title ELSE r.title,
            !.priority = IF c.priority # Undefined THEN c.priority ELSE r.priority,
            !.status = IF c.status # Undefined THEN c.status ELSE r.status]

\* C17: edit_task writes only the fields its arguments name: the addressed task keeps
\* every other field, and every other task is unchanged.
C17_SparsePatch ==
  [][(IF RunsCall THEN CurrentCall.name = "edit_task" ELSE FALSE) =>
       \/ store' = store
       \/ store' = (store \ Addressed) \cup {Edited(r, CurrentCall) : r \in Addressed}]_vars

\* C17 witness: edit_task {task_id: 1, status: "todo"} has run: task 1 is in the first
\* column with its title, priority, position and completion timestamp as before.
C17_Witness ==
  /\ Len(results) >= 1
  /\ resp[1].tool_calls[1] = Call("edit_task", 1, Undefined, Undefined, "todo")
  /\ results[1] # <<>>
  /\ Row(1, UserId, "B", "medium", "todo", 1, Now) \in store

\* C18: a tool call with malformed arguments shows the execution-error notice and the
\* batch goes on: the call counts as run, with no ActionResult.
C18_MalformedIsLocal ==
  [][(IF pc = "tools" /\ resp' = resp /\ (results' # results \/ pc' # pc)
      THEN CurrentCall.malformed \/ (RunsCreate /\ CurrentCall.status \notin Statuses)
      ELSE FALSE) =>
       /\ toast' = ExecToast
       /\ results' = Append(results, <<>>)
       /\ pc' \in {"tools", "persist"}]_vars

\* the last ActionResult of a list of results, if any
RECURSIVE LastActionResult(_)
LastActionResult(rs) ==
  IF rs = <<>> THEN <<>>
  ELSE IF rs[Len(rs)] # <<>> THEN rs[Len(rs)]
  ELSE LastActionResult(SubSeq(rs, 1, Len(rs) - 1))

\* C19: when the model sent tool calls and no text, the sentence and the badge of the
\* assistant message are those of the last call that gave an ActionResult.
C19_LastSuccessDrivesBanner ==
  [][(pc = "tools" /\ pc' = "persist" /\ resp[1].content = <<>>) =>
       messages'[Len(messages')] =
         AssistantMsg(Fallback(LastActionResult(results')), LastActionResult(results'))]_vars

\* C20: every failing call is followed by a notice: the gateway request, a tool call's
\* store call, the reload query, the insert of the chat message.
C20_NoSilentFailure ==
  [][/\ (RequestFails => toast' = FailureToast(resp'[1]))
     /\ ((IF RunsCall THEN results'[Len(results')] = <<>> /\ store' = store
                            /\ CurrentCall.name \in {"create_task", "edit_task", "delete_task"}
          ELSE FALSE) => toast' = ExecToast)
     /\ ((\E r \in loadsBack : r.error /\ loadsBack' = loadsBack \ {r}) =>
           toast' = <<"Error carregant tasques", "">>)
     /\ ((pc = "persist" /\ pc' = "idle" /\ chatLog' = chatLog) => toast' # toast)]_vars

\* C21: the message list changes only by a message being appended at its end, or by
\* clearChat starting the list again; it always begins with the greeting.
C21_AppendOnly ==
  /\ [](IF messages = <<>> THEN FALSE
        ELSE messages[1].id = "welcome" /\ messages[1].role = "assistant")
  /\ [][messages' # messages =>
          \/ /\ Len(messages') = Len(messages) + 1
             /\ SubSeq(messages', 1, Len(messages)) = messages
          \/ messages' = <<Restarted>>]_vars

\* C21 witness: a turn with a tool call has ended; the list is the greeting, the user's
\* message and the assistant's message.
C21_Witness ==
  /\ pc = "idle"
  /\ Len(messages) = 3
  /\ messages[1] = Greeting
  /\ messages[2] = UserMsg("hola")
  /\ messages[3].role = "assistant"
  /\ messages[3].action # <<>>

\* the positions of the task list of a prompt where a line begins
LineStarts(list) == {k \in DOMAIN list : list[k] = "- ID: "}

\* C22: the boardContext of a request of the chat has exactly one entry (id, title,
\* status, priority) per task of the in-memory list, in the list's order, and its three
\* counts are the numbers of entries with that status; the system prompt the relay builds
\* from it has one line per entry, carrying the entry's id, title, status and priority,
\* and reads "No tasks yet" exactly when there is no entry.
C22_PromptListsBoard ==
  [][boardContext' # <<>> =>
       LET ctx == boardContext'[1]
           n == Len(tasks)
           Count(st) == Cardinality({i \in DOMAIN ctx.tasks : ctx.tasks[i].status = st})
       IN /\ Len(ctx.tasks) = n
          /\ \A i \in 1..n :
               /\ DOMAIN ctx.tasks[i] = {"id", "title", "status", "priority"}
               /\ ctx.tasks[i].id = tasks[i].id
               /\ ctx.tasks[i].title = tasks[i].title
               /\ ctx.tasks[i].status = tasks[i].status
               /\ ctx.tasks[i].priority = tasks[i].priority
          /\ ctx.todoCount = Count("todo")
          /\ ctx.inProgressCount = Count("in_progress")
          /\ ctx.doneCount = Count("done")
          /\ systemPrompt' # <<>> =>
               LET p == systemPrompt'[1]
                   list == p.taskList
               IN /\ p.todo = ctx.todoCount
                  /\ p.inProgress = ctx.inProgressCount
                  /\ p.done = ctx.doneCount
                  /\ Cardinality(LineStarts(list)) = n
                  /\ \A i \in 1..n :
                       \E k \in LineStarts(list) :
                         /\ list[k + 1] = ToString(ctx.tasks[i].id)
                         /\ list[k + 3] = ctx.tasks[i].title
                         /\ list[k + 5] = ctx.tasks[i].status
                         /\ list[k + 7] = ctx.tasks[i].priority
                  /\ (\E k \in DOMAIN list : list[k] = NoTasksYet) <=> n = 0]_vars

\* C22 witness: the chat asked with a board of three tasks, one per status, and the relay
\* built its prompt.
C22_Witness ==
  /\ Len(tasks) = 3
  /\ boardContext # <<>>
  /\ systemPrompt # <<>>
  /\ boardContext = <<BoardContext(tasks)>>
  /\ boardContext[1].doneCount = 1
  /\ boardContext[1].inProgressCount = 1

\* the lines of a text that are complete (their line break has arrived)
CompleteLines(text) ==
  IF text = <<>> THEN <<>>
  ELSE IF text[Len(text)] = LF THEN LinesOf(text)
  ELSE SubSeq(LinesOf(text), 1, Len(LinesOf(text)) - 1)

\* a data: line whose payload is neither JSON nor the sentinel
Unparsable(l) ==
  IsDataLine(l) /\ ~IsDoneLine(l) /\ JsonText(Payload(l)) \notin JsonTokens

\* the complete lines before the first unparsable one
RECURSIVE BeforeUnparsable(_)
BeforeUnparsable(ls) ==
  IF ls = <<>> THEN <<>>
  ELSE IF Unparsable(Head(ls)) THEN <<>>
  ELSE <<Head(ls)>> \o BeforeUnparsable(Tail(ls))

\* the lines that have arrived completely and come before the sentinel
Arrived == BeforeDone(CompleteLines(SubSeq(sse, 1, delivered)))

\* s is a prefix of t
IsPrefix(s, t) == IF Len(s) <= Len(t) THEN SubSeq(t, 1, Len(s)) = s ELSE FALSE

\* C23: however the body is cut into reads, the delta of a data: fragment is appended
\* exactly once, when its line is complete: as long as every complete data: line parsed,
\* the content is the deltas of the complete lines, and it never holds a delta twice or
\* out of order. A complete data: line that fails to parse is not discarded: it is at
\* the front of the buffer, and is so again after every later read.
C23_SplitFragmentOnce ==
  /\ IsPrefix(assistantContent, Deltas(BeforeDone(LinesOf(sse))))
  /\ IF BeforeUnparsable(Arrived) = Arrived
     THEN assistantContent = Deltas(Arrived)
     ELSE LET bad == Arrived[Len(BeforeUnparsable(Arrived)) + 1]
          IN /\ assistantContent = Deltas(BeforeUnparsable(Arrived))
             /\ IsPrefix(StripCR(bad) \o <<LF>>, buffer)

\* C23 witness: the first fragment arrived in pieces and its delta is in the content,
\* once; the second is half arrived and waits in the buffer.
C23_Witness ==
  /\ sse = <<DataPrefix, "{He", "l}", LF, DataPrefix, "{He", "l}", LF>>
  /\ delivered = 6
  /\ buffer = <<DataPrefix, "{He">>
  /\ assistantContent = <<"Hel">>

\* C30: a complete data: line that can never be parsed does not block the decoder: when
\* the stream has ended, the content holds the delta of every well-formed complete
\* data: line before the sentinel, also of those after the unparsable line.
C30_UnparsableLineSkipped ==
  sPc = "end" => assistantContent = Deltas(BeforeDone(CompleteLines(sse)))

\* C24: when the last outstanding reload answers (without error, none of them having
\* shown the load error) the in-memory list is the store's current list of the user's
\* tasks, in whatever order the answers arrived.
C24_ReloadsConverge ==
  [][(/\ \E r \in loadsBack : ~r.error /\ loadsBack' = loadsBack \ {r} /\ tasks' = r.data
      /\ loadsBack' = {}
      /\ loadsSent' = 0
      /\ toast' # <<"Error carregant tasques", "">>) =>
       tasks' = SelectTasks(store', UserId)]_vars

\* C25: after a successful handleDrop the moved task has in memory the status and the
\* completion timestamp it has in the store.
C25_PatchEqualsStore ==
  [][(IF drop # <<>> /\ drop' = <<>> THEN ~drop[1].error ELSE FALSE) =>
       \A i \in 1..Len(tasks') :
         tasks'[i].id = drop[1].id =>
           \A r \in store' :
             r.id = drop[1].id =>
               /\ r.status = tasks'[i].status
               /\ r.finalitzacio_tasca = tasks'[i].finalitzacio_tasca]_vars

\* C26: handleDrop goes to the store only with a dragged task whose status differs from
\* the target column; otherwise it changes neither the store nor the list and only
\* clears the marker. When the update fails the list and the store stay as they were.
\* When handleDrop has run, the dragged-task marker is cleared.
C26_DropNoOps ==
  [][/\ (drop = <<>> /\ drop' # <<>>) =>
          IF draggedTask = <<>> THEN FALSE
          ELSE /\ draggedTask[1].status # drop'[1].newStatus
               /\ draggedTask[1].id = drop'[1].id
     /\ (drop = <<>> /\ draggedTask # <<>> /\ draggedTask' = <<>>) =>
          /\ store' = store
          /\ tasks' = tasks
          /\ drop' = <<>>
     /\ (IF drop # <<>> /\ drop' = <<>> THEN drop[1].error ELSE FALSE) =>
          /\ store' = store
          /\ tasks' = tasks
          /\ toast' = <<"Error movent tasca", "">>
     /\ (drop # <<>> /\ drop' = <<>>) => draggedTask' = <<>>]_vars

\* C26 witness: a drop whose update failed has returned: the error notice is shown, the
\* marker is cleared and the list still shows the task in its old column.
C26_Witness ==
  /\ toast = <<"Error movent tasca", "">>
  /\ draggedTask = <<>>
  /\ drop = <<>>
  /\ tasks = SelectTasks(InitialRows, UserId)
  /\ store = InitialRows

\* C27: every accepted turn eventually ends with loading false, whatever the gateway
\* answers and whatever the tool calls do, when every network call returns or fails.
C27_TurnEnds == loading ~> (~loading /\ pc = "idle")

\* C27 witness: a turn whose tool call had malformed arguments has ended through the
\* catch: the connection notice is shown and loading is false.
C27_Witness ==
  /\ accepted = 1
  /\ pc = "idle"
  /\ ~loading
  /\ toast = ConnToast
  /\ resp # <<>>
  /\ resp[1].kind = "ok"
  /\ Len(resp[1].tool_calls) = 1

\* C28: after clearChat the list holds only the greeting and messages of turns started
\* after the clear: while the list is the restart greeting alone and a turn is still in
\* flight (it began before the clear), that turn adds nothing to the list.
C28_ClearDropsTurnInFlight ==
  [][(messages = <<Restarted>> /\ pc # "idle") => messages' = <<Restarted>>]_vars

\* C29: when no call of the batch gave an ActionResult and the model sent no text, the
\* assistant message does not say that an action was performed successfully.
C29_NoSuccessWithoutAction ==
  [][(IF pc = "tools" /\ pc' = "persist"
      THEN resp[1].content = <<>> /\ \A i \in 1..Len(results') : results'[i] = <<>>
      ELSE FALSE) =>
       messages'[Len(messages')].content # <<"Accio realitzada correctament!">>]_vars

====
